---------------------------- MODULE Spec2Model ----------------------------
(***************************************************************************)
(* CRUD handlers of three NSX-T Terraform resources (NAT rule, L4 port-set *)
(* NS service, firewall section) run against a model of the NSX manager.   *)
(*                                                                         *)
(* A handler is an operator from a context (local record d, server store,  *)
(* log of the remote calls made so far) to the SET of contexts it can     *)
(* return with: one element per way the remote calls of that run can be    *)
(* answered.  A remote call is answered according to an Outcome.           *)
(***************************************************************************)
EXTENDS Integers, Sequences, FiniteSets, TLC

VARIABLES kind,      \* the resource under test: "nat", "l4" or "fw"
          d,         \* the local record (schema.ResourceData) of the resource
          store,     \* the manager's objects of that kind: id -> object; between
                     \* two runs, those a request of the record can still name
          nextId,    \* number of the next identifier the manager assigns
          last,      \* the last handler run: op, record before, calls, result
          readRev,   \* history of d.Set("revision", ...) in the record Terraform
                     \* holds: any = the revision a Read stored last, fromOk =
                     \* it is the revision the last Read that returned nil
                     \* stored (or no Read has changed the revision yet)
          others,    \* the writes other clients of the manager may still make
          recreate   \* history of an object another client deleted: phase
                     \* "deleted" while the record still names it, "cleared"
                     \* once a Read has cleared the identifier and until a
                     \* Create has returned with a new one; id = its identifier

vars == <<kind, d, store, nextId, last, readRev, others, recreate>>

----------------------------------------------------------------------------
(* Bounds *)

MaxIds == 2          \* identifiers the manager hands out in one behaviour
MaxRev == 2          \* highest revision a stored object reaches
MaxOther == 1        \* writes of other clients of the manager in one behaviour

(* HTTP status codes *)
StatusOK == 200
StatusCreated == 201
StatusBadRequest == 400
StatusNotFound == 404
StatusPreconditionFailed == 412
StatusInternalServerError == 500

IdNames == <<"id1", "id2", "id3", "id4">>
IdOf(n) == IdNames[n]

----------------------------------------------------------------------------
(* How one remote call is answered.                                        *)
(*   other : what another client of the manager does to the object the     *)
(*           request names just before the request is answered: nothing,   *)
(*           delete it (gone) or edit it (edited)                          *)
(*   mode  : deliver   - the manager processes the request and its         *)
(*                       response arrives                                  *)
(*           fail      - the manager answers 500 without processing the    *)
(*                       request                                           *)
(*           transport - the request never reaches the manager: no         *)
(*                       response object, an error                         *)
(*           lost      - the manager processes the request and its         *)
(*                       response never arrives: no response object, an    *)
(*                       error                                             *)
(*   err   : the client reports an error; next to a response this is an    *)
(*           error it raises for the status or while decoding the body     *)

OtherWrites == {"none", "gone", "edited"}

Outcomes ==
    [other : OtherWrites, mode : {"deliver", "fail"}, err : BOOLEAN]
      \cup [other : OtherWrites, mode : {"transport", "lost"}, err : {TRUE}]

Remove(st, id) == [i \in (DOMAIN st) \ {id} |-> st[i]]
Put(st, id, obj) == [i \in (DOMAIN st) \cup {id} |-> IF i = id THEN obj ELSE st[i]]

----------------------------------------------------------------------------
(* Tags: a set of scope/tag pairs on both sides *)

getTagsFromSchema(tags) == {[Scope |-> t.scope, Tag |-> t.tag] : t \in tags}
setTagsInSchema(tags) == {[scope |-> t.Scope, tag |-> t.Tag] : t \in tags}

Tag1 == [scope |-> "env", tag |-> "prod"]
Tag2 == [scope |-> "team", tag |-> "net"]

----------------------------------------------------------------------------
(* NAT rule: records *)

NatZero ==
    [Id |-> "", Revision |-> 0, Description |-> "", DisplayName |-> "",
     Tags |-> {}, Action |-> "", Enabled |-> FALSE, Logging |-> FALSE,
     LogicalRouterId |-> "", MatchDestinationNetwork |-> "",
     MatchSourceNetwork |-> "", NatPass |-> FALSE, RulePriority |-> 0,
     TranslatedNetwork |-> "", TranslatedPorts |-> ""]

\* the user-supplied fields of a NAT rule record
NatUserFields ==
    {"description", "display_name", "tag", "action", "enabled", "logging",
     "logical_router_id", "match_destination_network", "match_source_network",
     "nat_pass", "translated_network", "translated_ports"}

NatCfgA ==
    [description |-> "outbound", display_name |-> "snat-a", tag |-> {Tag1},
     action |-> "SNAT", enabled |-> TRUE, logging |-> FALSE,
     logical_router_id |-> "lr1", match_destination_network |-> "",
     match_source_network |-> "10.0.0.0/24", nat_pass |-> TRUE,
     translated_network |-> "4.4.4.4", translated_ports |-> ""]

NatCfgB ==
    [description |-> "inbound", display_name |-> "dnat-b", tag |-> {Tag2},
     action |-> "DNAT", enabled |-> FALSE, logging |-> TRUE,
     logical_router_id |-> "lr1", match_destination_network |-> "5.5.5.5",
     match_source_network |-> "", nat_pass |-> FALSE,
     translated_network |-> "10.0.0.9", translated_ports |-> "8080"]

\* a configuration without a logical router
NatCfgC == [NatCfgA EXCEPT !.logical_router_id = ""]

NatCfgs == {NatCfgA, NatCfgB, NatCfgC}

\* what another client of the manager writes into a NAT rule
NatOther(obj) ==
    [obj EXCEPT !.Description = "edited", !.DisplayName = "renamed",
                !.Tags = {}, !.Action = "REFLEXIVE",
                !.Enabled = ~obj.Enabled, !.Logging = ~obj.Logging,
                !.MatchDestinationNetwork = "7.7.7.7",
                !.MatchSourceNetwork = "8.8.8.8", !.NatPass = ~obj.NatPass,
                !.RulePriority = 1024, !.TranslatedNetwork = "9.9.9.9",
                !.TranslatedPorts = "443", !.Revision = obj.Revision + 1]

\* the schema's defaults joined with a configuration: the record Terraform
\* hands to Create
NatRecord(cfg) ==
    [id |-> "", revision |-> 0, rule_priority |-> 0,
     description |-> cfg.description, display_name |-> cfg.display_name,
     tag |-> cfg.tag, action |-> cfg.action, enabled |-> cfg.enabled,
     logging |-> cfg.logging, logical_router_id |-> cfg.logical_router_id,
     match_destination_network |-> cfg.match_destination_network,
     match_source_network |-> cfg.match_source_network,
     nat_pass |-> cfg.nat_pass, translated_network |-> cfg.translated_network,
     translated_ports |-> cfg.translated_ports]

----------------------------------------------------------------------------
(* L4 port-set NS service: records *)

PortOrder == <<"22", "53", "80", "443">>

\* (*schema.Set).List() followed by Interface2StringList
Interface2StringList(ports) == SelectSeq(PortOrder, LAMBDA p : p \in ports)

\* d.Set of a string list into a TypeSet field
StringList2Set(list) == {list[i] : i \in DOMAIN list}

L4Zero ==
    [Id |-> "", Revision |-> 0, SystemOwned |-> FALSE, Description |-> "",
     DisplayName |-> "", Tags |-> {}, DefaultService |-> FALSE,
     NsserviceElement |->
        [ResourceType |-> "", L4Protocol |-> "", DestinationPorts |-> <<>>,
         SourcePorts |-> <<>>]]

L4UserFields ==
    {"description", "display_name", "tags", "destination_ports",
     "source_ports", "l4_protocol"}

L4CfgA ==
    [description |-> "ssh", display_name |-> "svc-a", tags |-> {Tag1},
     destination_ports |-> {"22"}, source_ports |-> {},
     l4_protocol |-> "TCP"]

L4CfgB ==
    [description |-> "web", display_name |-> "svc-b", tags |-> {Tag2},
     destination_ports |-> {"80", "443"}, source_ports |-> {"53"},
     l4_protocol |-> "UDP"]

L4Cfgs == {L4CfgA, L4CfgB}

\* what another client of the manager writes into an NS service
L4Other(obj) ==
    [obj EXCEPT !.Description = "edited", !.DisplayName = "renamed",
                !.Tags = {}, !.DefaultService = ~obj.DefaultService,
                !.SystemOwned = ~obj.SystemOwned,
                !.NsserviceElement =
                    [ResourceType |-> "L4PortSetNSService",
                     L4Protocol |-> "SCTP", DestinationPorts |-> <<"53">>,
                     SourcePorts |-> <<"22">>],
                !.Revision = obj.Revision + 1]

L4Record(cfg) ==
    [id |-> "", revision |-> 0, system_owned |-> FALSE,
     default_service |-> FALSE,
     description |-> cfg.description, display_name |-> cfg.display_name,
     tags |-> cfg.tags, destination_ports |-> cfg.destination_ports,
     source_ports |-> cfg.source_ports, l4_protocol |-> cfg.l4_protocol]

----------------------------------------------------------------------------
(* Firewall section: records *)

\* resource references: local maps and manager.ResourceReference
getResourceReferences(refs) ==
    [i \in DOMAIN refs |->
        [IsValid |-> refs[i].is_valid,
         TargetDisplayName |-> refs[i].target_display_name,
         TargetId |-> refs[i].target_id, TargetType |-> refs[i].target_type]]

returnResourceReferences(refs) ==
    [i \in DOMAIN refs |->
        [is_valid |-> refs[i].IsValid,
         target_display_name |-> refs[i].TargetDisplayName,
         target_id |-> refs[i].TargetId, target_type |-> refs[i].TargetType]]

\* the same for a TypeSet field
getResourceReferencesFromSchemaSet(refs) ==
    {[IsValid |-> r.is_valid, TargetDisplayName |-> r.target_display_name,
      TargetId |-> r.target_id, TargetType |-> r.target_type] : r \in refs}

setResourceReferencesInSchema(refs) ==
    {[is_valid |-> r.IsValid, target_display_name |-> r.TargetDisplayName,
      target_id |-> r.TargetId, target_type |-> r.TargetType] : r \in refs}

RefSwitch == [is_valid |-> TRUE, target_display_name |-> "ls-web",
              target_id |-> "ls1", target_type |-> "LogicalSwitch"]
RefGroup == [is_valid |-> FALSE, target_display_name |-> "grp-db",
             target_id |-> "ns1", target_type |-> "NSGroup"]
SvcHttp == [is_valid |-> TRUE, target_display_name |-> "http",
            target_id |-> "svc1", target_type |-> "NSService"]
SvcGroup == [is_valid |-> FALSE, target_display_name |-> "mail",
             target_id |-> "sg1", target_type |-> "NSServiceGroup"]

RuleA ==
    [revision |-> 0, description |-> "allow web",
     display_name |-> "rule-a", action |-> "ALLOW",
     applied_to |-> <<RefSwitch>>, destination |-> <<RefGroup>>,
     destinations_excluded |-> FALSE, direction |-> "IN",
     disabled |-> FALSE, ip_protocol |-> "IPV4", logged |-> TRUE,
     notes |-> "note-a", rule_tag |-> "web", source |-> <<>>,
     sources_excluded |-> FALSE, service |-> <<SvcHttp>>]

RuleB ==
    [revision |-> 0, description |-> "drop rest",
     display_name |-> "rule-b", action |-> "DROP",
     applied_to |-> <<>>, destination |-> <<>>,
     destinations_excluded |-> TRUE, direction |-> "OUT",
     disabled |-> TRUE, ip_protocol |-> "IPV6", logged |-> FALSE,
     notes |-> "", rule_tag |-> "", source |-> <<RefSwitch, RefGroup>>,
     sources_excluded |-> TRUE, service |-> <<SvcGroup, SvcHttp>>]

FwZero ==
    [Id |-> "", Revision |-> 0, Description |-> "", DisplayName |-> "",
     Tags |-> {}, AppliedTos |-> {}, IsDefault |-> FALSE,
     SectionType |-> "", Stateful |-> FALSE, Rules |-> <<>>]

FwUserFields ==
    {"description", "display_name", "tag", "section_type", "stateful",
     "applied_to", "rule"}

FwCfgA ==
    [description |-> "edge", display_name |-> "sec-a", tag |-> {Tag1},
     section_type |-> "LAYER3", stateful |-> TRUE,
     applied_to |-> {RefSwitch}, rule |-> <<>>]

FwCfgB ==
    [description |-> "core", display_name |-> "sec-b", tag |-> {Tag2},
     section_type |-> "LAYER2", stateful |-> TRUE,
     applied_to |-> {}, rule |-> <<RuleA>>]

FwCfgs == {FwCfgA, FwCfgB}

\* the longest configured rule list of the translation runs
MaxRules == 2

\* every rule list of up to MaxRules rules
RuleLists == UNION {[1..n -> {RuleA, RuleB}] : n \in 0..MaxRules}

\* a rule another client of the manager puts into a section
OtherRule ==
    [Id |-> "r1", Revision |-> 1, DisplayName |-> "rule-x",
     Description |-> "audit", RuleTag |-> "audit", Notes |-> "",
     Action |-> "REJECT", Logged |-> TRUE, Disabled |-> FALSE,
     SourcesExcluded |-> FALSE, DestinationsExcluded |-> FALSE,
     IpProtocol |-> "IPV4_IPV6", Direction |-> "IN_OUT", Sources |-> <<>>,
     Destinations |-> <<>>, Services |-> <<>>,
     AppliedTos |-> getResourceReferences(<<RefGroup>>)]

\* what another client of the manager writes into a firewall section
FwOther(obj) ==
    [obj EXCEPT !.Description = "edited", !.DisplayName = "renamed",
                !.Tags = {},
                !.AppliedTos = getResourceReferencesFromSchemaSet({RefGroup}),
                !.IsDefault = TRUE, !.Rules = <<OtherRule>>,
                !.Revision = obj.Revision + 1]

FwRecord(cfg) ==
    [id |-> "", revision |-> 0, is_default |-> FALSE,
     description |-> cfg.description, display_name |-> cfg.display_name,
     tag |-> cfg.tag, section_type |-> cfg.section_type,
     stateful |-> cfg.stateful, applied_to |-> cfg.applied_to,
     rule |-> cfg.rule]

----------------------------------------------------------------------------
(* The exchange of one request and its response *)

\* the manager's answer to a request it processes
Answer(st, n, code, body) ==
    [store |-> st, nextId |-> n, StatusCode |-> code, body |-> body]

\* NSX manager, NAT rules of a logical router
NatServer(api, st, n, id, router, req, zero) ==
    CASE api = "AddNatRule" ->
           LET obj == [req EXCEPT !.Id = IdOf(n), !.Revision = 0,
                                  !.LogicalRouterId = router]
           IN  Answer(Put(st, IdOf(n), obj), n + 1, StatusCreated, obj)
      [] api = "GetNatRule" ->
           IF id \in DOMAIN st /\ st[id].LogicalRouterId = router
           THEN Answer(st, n, StatusOK, st[id])
           ELSE Answer(st, n, StatusNotFound, zero)
      [] api = "UpdateNatRule" ->
           IF ~(id \in DOMAIN st /\ st[id].LogicalRouterId = router)
           THEN Answer(st, n, StatusNotFound, zero)
           ELSE IF req.Revision # st[id].Revision
           THEN Answer(st, n, StatusPreconditionFailed, zero)
           ELSE LET obj == [req EXCEPT !.Id = id,
                                       !.Revision = st[id].Revision + 1]
                IN  Answer(Put(st, id, obj), n, StatusOK, obj)
      [] api = "DeleteNatRule" ->
           IF id \in DOMAIN st /\ st[id].LogicalRouterId = router
           THEN Answer(Remove(st, id), n, StatusOK, zero)
           ELSE Answer(st, n, StatusNotFound, zero)

\* NSX manager, NS services
L4Server(api, st, n, id, req, zero) ==
    CASE api = "CreateL4PortSetNSService" ->
           LET obj == [req EXCEPT !.Id = IdOf(n), !.Revision = 0]
           IN  Answer(Put(st, IdOf(n), obj), n + 1, StatusCreated, obj)
      [] api = "ReadL4PortSetNSService" ->
           IF id \in DOMAIN st
           THEN Answer(st, n, StatusOK, st[id])
           ELSE Answer(st, n, StatusNotFound, zero)
      [] api = "UpdateL4PortSetNSService" ->
           IF id \notin DOMAIN st
           THEN Answer(st, n, StatusNotFound, zero)
           ELSE IF req.Revision # st[id].Revision
           THEN Answer(st, n, StatusPreconditionFailed, zero)
           ELSE LET obj == [req EXCEPT !.Id = id,
                                       !.Revision = st[id].Revision + 1]
                IN  Answer(Put(st, id, obj), n, StatusOK, obj)
      [] api = "DeleteNSService" ->
           IF id \in DOMAIN st
           THEN Answer(Remove(st, id), n, StatusOK, zero)
           ELSE Answer(st, n, StatusNotFound, zero)

RuleIdNames == <<"r1", "r2", "r3">>

\* the manager names the rules of a section it stores
WithRuleIds(rules) ==
    [i \in DOMAIN rules |-> [rules[i] EXCEPT !.Id = RuleIdNames[i]]]

\* a manager.FirewallSection carries no rules
SectionOnly(obj) == [obj EXCEPT !.Rules = <<>>]

\* NSX manager, firewall sections
FwServer(api, st, n, id, arg, req, zero) ==
    CASE api = "AddSection" ->
           LET obj == [req EXCEPT !.Id = IdOf(n), !.Revision = 0,
                                  !.Rules = <<>>]
           IN  Answer(Put(st, IdOf(n), obj), n + 1, StatusCreated, obj)
      [] api = "AddSectionWithRulesCreateWithRules" ->
           LET obj == [req EXCEPT !.Id = IdOf(n), !.Revision = 0,
                                  !.Rules = WithRuleIds(req.Rules)]
           IN  Answer(Put(st, IdOf(n), obj), n + 1, StatusCreated, obj)
      [] api = "GetSectionWithRulesListWithRules" ->
           IF id \in DOMAIN st
           THEN Answer(st, n, StatusOK, st[id])
           ELSE Answer(st, n, StatusNotFound, zero)
      [] api = "GetSection" ->
           IF id \in DOMAIN st
           THEN Answer(st, n, StatusOK, SectionOnly(st[id]))
           ELSE Answer(st, n, StatusNotFound, zero)
      [] api = "UpdateSection" ->
           IF id \notin DOMAIN st
           THEN Answer(st, n, StatusNotFound, zero)
           ELSE IF req.Revision # st[id].Revision
           THEN Answer(st, n, StatusPreconditionFailed, zero)
           ELSE LET obj == [req EXCEPT !.Id = id,
                                       !.Revision = st[id].Revision + 1,
                                       !.Rules = st[id].Rules]
                IN  Answer(Put(st, id, obj), n, StatusOK, SectionOnly(obj))
      [] api = "UpdateSectionWithRulesUpdateWithRules" ->
           IF id \notin DOMAIN st
           THEN Answer(st, n, StatusNotFound, zero)
           ELSE IF req.Revision # st[id].Revision
           THEN Answer(st, n, StatusPreconditionFailed, zero)
           ELSE LET obj == [req EXCEPT !.Id = id,
                                       !.Revision = st[id].Revision + 1,
                                       !.Rules = WithRuleIds(req.Rules)]
                IN  Answer(Put(st, id, obj), n, StatusOK, obj)
      [] api = "DeleteRule" ->
           IF id \in DOMAIN st
                /\ \E i \in DOMAIN st[id].Rules : st[id].Rules[i].Id = arg
           THEN LET obj == [st[id] EXCEPT !.Rules =
                               SelectSeq(st[id].Rules,
                                         LAMBDA r : r.Id # arg)]
                IN  Answer(Put(st, id, obj), n, StatusOK, zero)
           ELSE Answer(st, n, StatusNotFound, zero)
      [] api = "DeleteSection" ->
           IF id \notin DOMAIN st
           THEN Answer(st, n, StatusNotFound, zero)
           ELSE IF arg # "cascade" /\ st[id].Rules # <<>>
           THEN Answer(st, n, StatusBadRequest, zero)
           ELSE Answer(Remove(st, id), n, StatusOK, zero)

NatApis == {"AddNatRule", "GetNatRule", "UpdateNatRule", "DeleteNatRule"}
L4Apis == {"CreateL4PortSetNSService", "ReadL4PortSetNSService",
           "UpdateL4PortSetNSService", "DeleteNSService"}

Server(api, st, n, id, arg, req, zero) ==
    CASE api \in NatApis -> NatServer(api, st, n, id, arg, req, zero)
      [] api \in L4Apis -> L4Server(api, st, n, id, req, zero)
      [] OTHER -> FwServer(api, st, n, id, arg, req, zero)

\* the requests that write a new revision of an object
UpdateApis ==
    {"UpdateNatRule", "UpdateL4PortSetNSService", "UpdateSection",
     "UpdateSectionWithRulesUpdateWithRules"}

\* what another client of the manager writes into the object a request names
OtherOf(api, obj) ==
    CASE api \in NatApis -> NatOther(obj)
      [] api \in L4Apis -> L4Other(obj)
      [] OTHER -> FwOther(obj)

\* the revisions the edit of another client and the request that follows it
\* add to an object
EditAdds(api) == IF api \in UpdateApis THEN 2 ELSE 1

\* the answers a request for object id can get: another client writes to the
\* object only while it is there and other clients have writes left
OutcomesOf(c, api, id) ==
    {o \in Outcomes :
        \/ o.other = "none"
        \/ /\ c.others > 0 /\ id \in DOMAIN c.store
           /\ o.other = "edited"
                 => c.store[id].Revision + EditAdds(api) <= MaxRev}

\* One call of the API client: the context after it, with the call and its
\* answer appended to the log.  fn is the handler function that calls.
\* What another client writes lands before the manager sees the request,
\* whatever becomes of the request; a request the manager has processed
\* has taken effect whether or not its response arrives.
Exchange(c, fn, api, id, arg, hasReq, req, zero, o) ==
    LET deleted == o.other = "gone"
        edited == o.other = "edited"
        st0 == IF deleted THEN Remove(c.store, id)
               ELSE IF edited
               THEN Put(c.store, id, OtherOf(api, c.store[id]))
               ELSE c.store
        left == IF deleted \/ edited THEN c.others - 1 ELSE c.others
        processed == o.mode \in {"deliver", "lost"}
        hasResp == o.mode \in {"deliver", "fail"}
        Logged(sr) ==
            LET code == CASE ~hasResp -> 0
                          [] processed -> sr.StatusCode
                          [] OTHER -> StatusInternalServerError
                success == /\ hasResp /\ ~o.err
                           /\ code \in {StatusOK, StatusCreated}
                entry == [fn |-> fn, api |-> api, id |-> id, arg |-> arg,
                          hasReq |-> hasReq, req |-> req,
                          gone |-> deleted, edited |-> edited,
                          hasResp |-> hasResp,
                          StatusCode |-> code,
                          err |-> o.err,
                          body |-> IF success THEN sr.body ELSE zero]
            IN  [c EXCEPT !.store = sr.store, !.nextId = sr.nextId,
                          !.others = left,
                          !.calls = Append(c.calls, entry)]
    IN  CHOOSE c1 \in {Logged(sr) :
                          sr \in {IF processed
                                  THEN Server(api, st0, c.nextId, id, arg,
                                              req, zero)
                                  ELSE Answer(st0, c.nextId, 0, zero)}} : TRUE

Reply(c) == c.calls[Len(c.calls)]

Return(c, r) == {[c EXCEPT !.result = r]}

\* the text of the error every identifier guard returns
ErrorObtainingId == "Error obtaining logical object id"

\* return fmt.Errorf(text); the text of the other errors, which quote the
\* error of the client, is not kept
Errorf(c, text) == {[c EXCEPT !.result = "error", !.msg = text]}

----------------------------------------------------------------------------
(* NAT rule: handlers *)

\* the manager.NatRule literal built by Create and Update
NatRuleFromSchema(rec, revision) ==
    [Id |-> "", Revision |-> revision,
     Description |-> rec.description, DisplayName |-> rec.display_name,
     Tags |-> getTagsFromSchema(rec.tag), Action |-> rec.action,
     Enabled |-> rec.enabled, Logging |-> rec.logging,
     LogicalRouterId |-> rec.logical_router_id,
     MatchDestinationNetwork |-> rec.match_destination_network,
     MatchSourceNetwork |-> rec.match_source_network,
     NatPass |-> rec.nat_pass, RulePriority |-> rec.rule_priority,
     TranslatedNetwork |-> rec.translated_network,
     TranslatedPorts |-> rec.translated_ports]

\* the d.Set calls of Read
NatSetInSchema(rec, natRule) ==
    [rec EXCEPT !.revision = natRule.Revision,
                !.description = natRule.Description,
                !.display_name = natRule.DisplayName,
                !.tag = setTagsInSchema(natRule.Tags),
                !.action = natRule.Action,
                !.enabled = natRule.Enabled,
                !.logging = natRule.Logging,
                !.logical_router_id = natRule.LogicalRouterId,
                !.match_destination_network = natRule.MatchDestinationNetwork,
                !.match_source_network = natRule.MatchSourceNetwork,
                !.nat_pass = natRule.NatPass,
                !.rule_priority = natRule.RulePriority,
                !.translated_network = natRule.TranslatedNetwork,
                !.translated_ports = natRule.TranslatedPorts]

\* Read that looks at the error before the status, as Delete does
resourceNsxtNatRuleRead_ErrFirst(c) ==
    IF c.d.id = "" THEN Errorf(c, ErrorObtainingId)
    ELSE IF c.d.logical_router_id = "" THEN Errorf(c, ErrorObtainingId)
    ELSE UNION {
      LET resp == Reply(c1)
      IN  IF resp.err THEN Return(c1, "error")
          ELSE IF ~resp.hasResp THEN Return(c1, "panic")
          ELSE IF resp.StatusCode = StatusNotFound
          THEN Return([c1 EXCEPT !.d.id = ""], "ok")
          ELSE Return([c1 EXCEPT !.d = NatSetInSchema(c1.d, resp.body)], "ok")
      : c1 \in {Exchange(c, "Read", "GetNatRule", c.d.id,
               c.d.logical_router_id, FALSE, NatZero, NatZero, o)
               : o \in OutcomesOf(c, "GetNatRule", c.d.id)} }

resourceNsxtNatRuleRead(c) ==
    IF c.d.id = "" THEN Errorf(c, ErrorObtainingId)
    ELSE IF c.d.logical_router_id = "" THEN Errorf(c, ErrorObtainingId)
    ELSE UNION {
      LET resp == Reply(c1)
      IN  IF ~resp.hasResp THEN Return(c1, "panic")
          ELSE IF resp.StatusCode = StatusNotFound
          THEN Return([c1 EXCEPT !.d.id = ""], "ok")
          ELSE IF resp.err THEN Return(c1, "error")
          ELSE Return([c1 EXCEPT !.d = NatSetInSchema(c1.d, resp.body)], "ok")
      : c1 \in {Exchange(c, "Read", "GetNatRule", c.d.id,
               c.d.logical_router_id, FALSE, NatZero, NatZero, o)
               : o \in OutcomesOf(c, "GetNatRule", c.d.id)} }

\* Create without the test of logical_router_id
resourceNsxtNatRuleCreate_NoGuard(c) ==
    UNION {
      LET resp == Reply(c1)
      IN  IF resp.err THEN Return(c1, "error")
          ELSE IF ~resp.hasResp THEN Return(c1, "panic")
          ELSE IF resp.StatusCode # StatusCreated THEN Return(c1, "error")
          ELSE resourceNsxtNatRuleRead([c1 EXCEPT !.d.id = resp.body.Id])
      : c1 \in {Exchange(c, "Create", "AddNatRule", "",
               c.d.logical_router_id, TRUE,
               req, NatZero, o)
               : o \in OutcomesOf(c, "AddNatRule", ""),
                 req \in {NatRuleFromSchema(c.d, 0)}} }

resourceNsxtNatRuleCreate(c) ==
    IF c.d.logical_router_id = "" THEN Errorf(c, ErrorObtainingId)
    ELSE UNION {
      LET resp == Reply(c1)
      IN  IF resp.err THEN Return(c1, "error")
          ELSE IF ~resp.hasResp THEN Return(c1, "panic")
          ELSE IF resp.StatusCode # StatusCreated THEN Return(c1, "error")
          ELSE resourceNsxtNatRuleRead([c1 EXCEPT !.d.id = resp.body.Id])
      : c1 \in {Exchange(c, "Create", "AddNatRule", "",
               c.d.logical_router_id, TRUE,
               req, NatZero, o)
               : o \in OutcomesOf(c, "AddNatRule", ""),
                 req \in {NatRuleFromSchema(c.d, 0)}} }

\* Update that submits no revision
resourceNsxtNatRuleUpdate_NoRevision(c) ==
    IF c.d.id = "" THEN Errorf(c, ErrorObtainingId)
    ELSE IF c.d.logical_router_id = "" THEN Errorf(c, ErrorObtainingId)
    ELSE UNION {
      LET resp == Reply(c1)
      IN  IF resp.err THEN Return(c1, "error")
          ELSE IF ~resp.hasResp THEN Return(c1, "panic")
          ELSE IF resp.StatusCode = StatusNotFound THEN Return(c1, "error")
          ELSE resourceNsxtNatRuleRead(c1)
      : c1 \in {Exchange(c, "Update", "UpdateNatRule", c.d.id,
               c.d.logical_router_id, TRUE,
               req, NatZero, o)
               : o \in OutcomesOf(c, "UpdateNatRule", c.d.id),
                 req \in {NatRuleFromSchema(c.d, 0)}} }

resourceNsxtNatRuleUpdate(c) ==
    IF c.d.id = "" THEN Errorf(c, ErrorObtainingId)
    ELSE IF c.d.logical_router_id = "" THEN Errorf(c, ErrorObtainingId)
    ELSE UNION {
      LET resp == Reply(c1)
      IN  IF resp.err THEN Return(c1, "error")
          ELSE IF ~resp.hasResp THEN Return(c1, "panic")
          ELSE IF resp.StatusCode = StatusNotFound THEN Return(c1, "error")
          ELSE resourceNsxtNatRuleRead(c1)
      : c1 \in {Exchange(c, "Update", "UpdateNatRule", c.d.id,
               c.d.logical_router_id, TRUE,
               req, NatZero, o)
               : o \in OutcomesOf(c, "UpdateNatRule", c.d.id),
                 req \in {NatRuleFromSchema(c.d, c.d.revision)}} }

resourceNsxtNatRuleDelete(c) ==
    IF c.d.id = "" THEN Errorf(c, ErrorObtainingId)
    ELSE IF c.d.logical_router_id = "" THEN Errorf(c, ErrorObtainingId)
    ELSE UNION {
      LET resp == Reply(c1)
      IN  IF resp.err THEN Return(c1, "error")
          ELSE IF ~resp.hasResp THEN Return(c1, "panic")
          ELSE IF resp.StatusCode = StatusNotFound
          THEN Return([c1 EXCEPT !.d.id = ""], "ok")
          ELSE Return(c1, "ok")
      : c1 \in {Exchange(c, "Delete", "DeleteNatRule", c.d.id,
               c.d.logical_router_id, FALSE, NatZero, NatZero, o)
               : o \in OutcomesOf(c, "DeleteNatRule", c.d.id)} }

----------------------------------------------------------------------------
(* L4 port-set NS service: handlers *)

\* the manager.L4PortSetNsService literal built by Create and Update
L4FromSchema(rec, revision) ==
    [Id |-> "", Revision |-> revision, SystemOwned |-> FALSE,
     Description |-> rec.description, DisplayName |-> rec.display_name,
     Tags |-> getTagsFromSchema(rec.tags),
     DefaultService |-> rec.default_service,
     NsserviceElement |->
        [ResourceType |-> "L4PortSetNSService",
         L4Protocol |-> rec.l4_protocol,
         DestinationPorts |-> Interface2StringList(rec.destination_ports),
         SourcePorts |-> Interface2StringList(rec.source_ports)]]

\* the d.Set calls of Read; "resource_type" is no key of the schema, so that
\* d.Set stores nothing, and no d.Set names l4_protocol
L4SetInSchema(rec, ns_service) ==
    [rec EXCEPT !.revision = ns_service.Revision,
                !.system_owned = ns_service.SystemOwned,
                !.description = ns_service.Description,
                !.display_name = ns_service.DisplayName,
                !.tags = setTagsInSchema(ns_service.Tags),
                !.default_service = ns_service.DefaultService,
                !.destination_ports =
                    StringList2Set(ns_service.NsserviceElement.DestinationPorts),
                !.source_ports =
                    StringList2Set(ns_service.NsserviceElement.SourcePorts)]

\* Read that stores the fields of the response before it tests for 404
resourceL4PortSetNsServiceRead_SetFirst(c) ==
    IF c.d.id = "" THEN Errorf(c, ErrorObtainingId)
    ELSE UNION {
      LET resp == Reply(c1)
      IN  IF ~resp.hasResp THEN Return(c1, "panic")
          ELSE IF resp.StatusCode = StatusNotFound
          THEN Return([c1 EXCEPT !.d =
                         [L4SetInSchema(c1.d, resp.body) EXCEPT !.id = ""]],
                      "ok")
          ELSE IF resp.err THEN Return(c1, "error")
          ELSE Return([c1 EXCEPT !.d = L4SetInSchema(c1.d, resp.body)], "ok")
      : c1 \in {Exchange(c, "Read", "ReadL4PortSetNSService", c.d.id, "",
               FALSE, L4Zero, L4Zero, o)
               : o \in OutcomesOf(c, "ReadL4PortSetNSService", c.d.id)} }

resourceL4PortSetNsServiceRead(c) ==
    IF c.d.id = "" THEN Errorf(c, ErrorObtainingId)
    ELSE UNION {
      LET resp == Reply(c1)
      IN  IF ~resp.hasResp THEN Return(c1, "panic")
          ELSE IF resp.StatusCode = StatusNotFound
          THEN Return([c1 EXCEPT !.d.id = ""], "ok")
          ELSE IF resp.err THEN Return(c1, "error")
          ELSE Return([c1 EXCEPT !.d = L4SetInSchema(c1.d, resp.body)], "ok")
      : c1 \in {Exchange(c, "Read", "ReadL4PortSetNSService", c.d.id, "",
               FALSE, L4Zero, L4Zero, o)
               : o \in OutcomesOf(c, "ReadL4PortSetNSService", c.d.id)} }

resourceL4PortSetNsServiceCreate(c) ==
    UNION {
      LET resp == Reply(c1)
      IN  IF resp.err THEN Return(c1, "error")
          ELSE IF ~resp.hasResp THEN Return(c1, "panic")
          ELSE IF resp.StatusCode # StatusCreated THEN Return(c1, "ok")
          ELSE resourceL4PortSetNsServiceRead(
                   [c1 EXCEPT !.d.id = resp.body.Id])
      : c1 \in {Exchange(c, "Create", "CreateL4PortSetNSService", "", "",
               TRUE, req, L4Zero, o)
               : o \in OutcomesOf(c, "CreateL4PortSetNSService", ""),
                 req \in {L4FromSchema(c.d, 0)}} }

\* Update without the test for 404
resourceL4PortSetNsServiceUpdate_No404(c) ==
    IF c.d.id = "" THEN Errorf(c, ErrorObtainingId)
    ELSE UNION {
      LET resp == Reply(c1)
      IN  IF resp.err THEN Return(c1, "error")
          ELSE resourceL4PortSetNsServiceRead(c1)
      : c1 \in {Exchange(c, "Update", "UpdateL4PortSetNSService", c.d.id, "",
               TRUE, req, L4Zero, o)
               : o \in OutcomesOf(c, "UpdateL4PortSetNSService", c.d.id),
                 req \in {L4FromSchema(c.d, c.d.revision)}} }

resourceL4PortSetNsServiceUpdate(c) ==
    IF c.d.id = "" THEN Errorf(c, ErrorObtainingId)
    ELSE UNION {
      LET resp == Reply(c1)
      IN  IF resp.err THEN Return(c1, "error")
          ELSE IF ~resp.hasResp THEN Return(c1, "panic")
          ELSE IF resp.StatusCode = StatusNotFound THEN Return(c1, "error")
          ELSE resourceL4PortSetNsServiceRead(c1)
      : c1 \in {Exchange(c, "Update", "UpdateL4PortSetNSService", c.d.id, "",
               TRUE, req, L4Zero, o)
               : o \in OutcomesOf(c, "UpdateL4PortSetNSService", c.d.id),
                 req \in {L4FromSchema(c.d, c.d.revision)}} }

resourceL4PortSetNsServiceDelete(c) ==
    IF c.d.id = "" THEN Errorf(c, ErrorObtainingId)
    ELSE UNION {
      LET resp == Reply(c1)
      IN  IF resp.err THEN Return(c1, "error")
          ELSE IF ~resp.hasResp THEN Return(c1, "panic")
          ELSE IF resp.StatusCode = StatusNotFound
          THEN Return([c1 EXCEPT !.d.id = ""], "ok")
          ELSE Return(c1, "ok")
      : c1 \in {Exchange(c, "Delete", "DeleteNSService", c.d.id, "",
               FALSE, L4Zero, L4Zero, o)
               : o \in OutcomesOf(c, "DeleteNSService", c.d.id)} }

----------------------------------------------------------------------------
(* Firewall section: handlers *)

returnServicesResourceReferences(services) ==
    [i \in DOMAIN services |->
        [is_valid |-> services[i].IsValid,
         target_display_name |-> services[i].TargetDisplayName,
         target_id |-> services[i].TargetId,
         target_type |-> services[i].TargetType]]

getServicesResourceReferences(services) ==
    [i \in DOMAIN services |->
        [IsValid |-> services[i].is_valid,
         TargetDisplayName |-> services[i].target_display_name,
         TargetId |-> services[i].target_id,
         TargetType |-> services[i].target_type]]

\* the keys of the rule schema (getRulesSchema); "id" is none of them
RuleSchemaKeys ==
    {"revision", "description", "display_name", "action", "applied_to",
     "destination", "destinations_excluded", "direction", "disabled",
     "ip_protocol", "logged", "notes", "rule_tag", "source",
     "sources_excluded", "service"}

\* the list the loop of setRulesInSchema builds: one elem per rule of the
\* response, with the key "id" and without the key "applied_to"
RulesList(rules) ==
    [i \in DOMAIN rules |->
        [id |-> rules[i].Id,
         display_name |-> rules[i].DisplayName,
         description |-> rules[i].Description,
         rule_tag |-> rules[i].RuleTag,
         notes |-> rules[i].Notes,
         logged |-> rules[i].Logged,
         action |-> rules[i].Action,
         destinations_excluded |-> rules[i].DestinationsExcluded,
         sources_excluded |-> rules[i].SourcesExcluded,
         ip_protocol |-> rules[i].IpProtocol,
         disabled |-> rules[i].Disabled,
         revision |-> rules[i].Revision,
         direction |-> rules[i].Direction,
         source |-> returnResourceReferences(rules[i].Sources),
         destination |-> returnResourceReferences(rules[i].Destinations),
         service |-> returnServicesResourceReferences(rules[i].Services)]]

\* setRulesInSchema whose elems have no key "id": the list is written, and
\* "applied_to", which no elem has, reads back empty
setRulesInSchema_NoId(rule, rules) ==
    [i \in DOMAIN rules |->
        [display_name |-> rules[i].DisplayName,
         description |-> rules[i].Description,
         rule_tag |-> rules[i].RuleTag,
         notes |-> rules[i].Notes,
         logged |-> rules[i].Logged,
         action |-> rules[i].Action,
         destinations_excluded |-> rules[i].DestinationsExcluded,
         sources_excluded |-> rules[i].SourcesExcluded,
         ip_protocol |-> rules[i].IpProtocol,
         disabled |-> rules[i].Disabled,
         revision |-> rules[i].Revision,
         direction |-> rules[i].Direction,
         source |-> returnResourceReferences(rules[i].Sources),
         destination |-> returnResourceReferences(rules[i].Destinations),
         service |-> returnServicesResourceReferences(rules[i].Services),
         applied_to |-> <<>>]]

\* d.Set("rule", rulesList) and the value of d.rule after it: the list is
\* written elem by elem and key by key, a key the rule schema does not
\* declare fails the whole Set and nothing of the list is written.
\* setRulesInSchema drops the error of d.Set, so that d.rule then keeps the
\* value it held.  Every elem of the loop has the key "id": only the empty
\* list is written.
setRulesInSchema(rule, rules) ==
    LET rulesList == RulesList(rules)
    IN  IF \E i \in DOMAIN rulesList :
               ~(DOMAIN rulesList[i] \subseteq RuleSchemaKeys)
        THEN rule
        ELSE rulesList

\* the manager.FirewallRule literals: Id and AppliedTos are not filled in
getRulesFromSchema(rules) ==
    [i \in DOMAIN rules |->
        [Id |-> "", AppliedTos |-> <<>>,
         DisplayName |-> rules[i].display_name,
         RuleTag |-> rules[i].rule_tag,
         Notes |-> rules[i].notes,
         Description |-> rules[i].description,
         Action |-> rules[i].action,
         Logged |-> rules[i].logged,
         Disabled |-> rules[i].disabled,
         Revision |-> rules[i].revision,
         SourcesExcluded |-> rules[i].sources_excluded,
         DestinationsExcluded |-> rules[i].destinations_excluded,
         IpProtocol |-> rules[i].ip_protocol,
         Direction |-> rules[i].direction,
         Sources |-> getResourceReferences(rules[i].source),
         Destinations |-> getResourceReferences(rules[i].destination),
         Services |-> getServicesResourceReferences(rules[i].service)]]

\* the manager.FirewallSection / manager.FirewallSectionRuleList literal
FwFromSchema(rec, revision, rules) ==
    [Id |-> "", Revision |-> revision,
     Description |-> rec.description, DisplayName |-> rec.display_name,
     Tags |-> getTagsFromSchema(rec.tag),
     AppliedTos |-> getResourceReferencesFromSchemaSet(rec.applied_to),
     IsDefault |-> rec.is_default, SectionType |-> rec.section_type,
     Stateful |-> rec.stateful, Rules |-> rules]

\* the d.Set calls of Read that follow the first request
FwSetInSchema(rec, firewallSection) ==
    [rec EXCEPT !.revision = firewallSection.Revision,
                !.description = firewallSection.Description,
                !.display_name = firewallSection.DisplayName,
                !.tag = setTagsInSchema(firewallSection.Tags),
                !.rule = setRulesInSchema(rec.rule, firewallSection.Rules),
                !.is_default = firewallSection.IsDefault,
                !.section_type = firewallSection.SectionType,
                !.stateful = firewallSection.Stateful]

\* the second request of Read and what follows it
FwReadAppliedTos(c) ==
    UNION {
      LET resp == Reply(c1)
      IN  IF ~resp.hasResp THEN Return(c1, "panic")
          ELSE IF resp.StatusCode = StatusNotFound
          THEN Return([c1 EXCEPT !.d.id = ""], "ok")
          ELSE IF resp.err THEN Return(c1, "error")
          ELSE Return([c1 EXCEPT !.d.applied_to =
                         setResourceReferencesInSchema(resp.body.AppliedTos)],
                      "ok")
      : c1 \in {Exchange(c, "Read", "GetSection", c.d.id, "", FALSE,
               FwZero, FwZero, o)
               : o \in OutcomesOf(c, "GetSection", c.d.id)} }

\* Read that keeps the identifier when the section is not found
resourceNsxtFirewallSectionRead_KeepId(c) ==
    IF c.d.id = "" THEN Errorf(c, ErrorObtainingId)
    ELSE UNION {
      LET resp == Reply(c1)
      IN  IF ~resp.hasResp THEN Return(c1, "panic")
          ELSE IF resp.StatusCode = StatusNotFound
          THEN Return(c1, "ok")
          ELSE IF resp.err THEN Return(c1, "error")
          ELSE FwReadAppliedTos(
                   [c1 EXCEPT !.d = FwSetInSchema(c1.d, resp.body)])
      : c1 \in {Exchange(c, "Read", "GetSectionWithRulesListWithRules",
               c.d.id, "", FALSE, FwZero, FwZero, o)
               : o \in OutcomesOf(c, "GetSectionWithRulesListWithRules", c.d.id)} }

resourceNsxtFirewallSectionRead(c) ==
    IF c.d.id = "" THEN Errorf(c, ErrorObtainingId)
    ELSE UNION {
      LET resp == Reply(c1)
      IN  IF ~resp.hasResp THEN Return(c1, "panic")
          ELSE IF resp.StatusCode = StatusNotFound
          THEN Return([c1 EXCEPT !.d.id = ""], "ok")
          ELSE IF resp.err THEN Return(c1, "error")
          ELSE FwReadAppliedTos(
                   [c1 EXCEPT !.d = FwSetInSchema(c1.d, resp.body)])
      : c1 \in {Exchange(c, "Read", "GetSectionWithRulesListWithRules",
               c.d.id, "", FALSE, FwZero, FwZero, o)
               : o \in OutcomesOf(c, "GetSectionWithRulesListWithRules", c.d.id)} }

resourceNsxtFirewallSectionCreateEmpty(c) ==
    UNION {
      LET resp == Reply(c1)
      IN  IF resp.err THEN Return(c1, "error")
          ELSE IF ~resp.hasResp THEN Return(c1, "panic")
          ELSE IF resp.StatusCode # StatusCreated THEN Return(c1, "error")
          ELSE resourceNsxtFirewallSectionRead(
                   [c1 EXCEPT !.d.id = resp.body.Id])
      : c1 \in {Exchange(c, "Create", "AddSection", "", "", TRUE,
               req, FwZero, o)
               : o \in OutcomesOf(c, "AddSection", ""),
                 req \in {FwFromSchema(c.d, 0, <<>>)}} }

\* Create that sends no rules
resourceNsxtFirewallSectionCreate_Empty(c) ==
    resourceNsxtFirewallSectionCreateEmpty(c)

resourceNsxtFirewallSectionCreate(c) ==
    LET rules == getRulesFromSchema(c.d.rule)
    IN  IF Len(rules) = 0 THEN resourceNsxtFirewallSectionCreateEmpty(c)
        ELSE UNION {
          LET resp == Reply(c1)
          IN  IF resp.err THEN Return(c1, "error")
              ELSE IF ~resp.hasResp THEN Return(c1, "panic")
              ELSE IF resp.StatusCode # StatusCreated
              THEN Return(c1, "error")
              ELSE resourceNsxtFirewallSectionRead(
                       [c1 EXCEPT !.d.id = resp.body.Id])
          : c1 \in {Exchange(c, "Create",
                   "AddSectionWithRulesCreateWithRules", "", "",
                   TRUE, req, FwZero, o)
                   : o \in OutcomesOf(c, "AddSectionWithRulesCreateWithRules", ""),
                 req \in {FwFromSchema(c.d, 0, rules)}} }

\* the loop over currSection.Rules; what DeleteRule returns is discarded
RECURSIVE DeleteRules(_, _, _)
DeleteRules(c, id, rules) ==
    IF rules = <<>> THEN {c}
    ELSE UNION {
      DeleteRules(c1, id, Tail(rules))
      : c1 \in {Exchange(c, "Update", "DeleteRule", id, Head(rules).Id,
                         FALSE, FwZero, FwZero, o)
               : o \in OutcomesOf(c, "DeleteRule", id)} }

\* the second request of UpdateEmpty and what follows it
FwDeleteCurrentRules(c, id) ==
    UNION {
      LET resp2 == Reply(c1)
      IN  IF ~resp2.hasResp THEN Return(c1, "panic")
          ELSE IF resp2.StatusCode = StatusNotFound THEN Return(c1, "error")
          ELSE IF resp2.err THEN Return(c1, "error")
          ELSE UNION {resourceNsxtFirewallSectionRead(c2)
                      : c2 \in DeleteRules(c1, id, resp2.body.Rules)}
      : c1 \in {Exchange(c, "Update", "GetSectionWithRulesListWithRules",
               id, "", FALSE, FwZero, FwZero, o)
               : o \in OutcomesOf(c, "GetSectionWithRulesListWithRules", id)} }

resourceNsxtFirewallSectionUpdateEmpty(c, id) ==
    UNION {
      LET resp == Reply(c1)
      IN  IF resp.err THEN Return(c1, "error")
          ELSE IF ~resp.hasResp THEN Return(c1, "panic")
          ELSE IF resp.StatusCode = StatusNotFound THEN Return(c1, "error")
          ELSE FwDeleteCurrentRules(c1, id)
      : c1 \in {Exchange(c, "Update", "UpdateSection", id, "", TRUE,
               req, FwZero, o)
               : o \in OutcomesOf(c, "UpdateSection", id),
                 req \in {FwFromSchema(c.d, c.d.revision, <<>>)}} }

resourceNsxtFirewallSectionUpdate(c) ==
    LET id == c.d.id
        rules == getRulesFromSchema(c.d.rule)
    IN  IF id = "" THEN Errorf(c, ErrorObtainingId)
        ELSE IF Len(rules) = 0
        THEN resourceNsxtFirewallSectionUpdateEmpty(c, id)
        ELSE UNION {
          LET resp == Reply(c1)
          IN  IF resp.err THEN Return(c1, "error")
              ELSE IF ~resp.hasResp THEN Return(c1, "panic")
              ELSE IF resp.StatusCode = StatusNotFound
              THEN Return(c1, "error")
              ELSE resourceNsxtFirewallSectionRead(c1)
          : c1 \in {Exchange(c, "Update",
                   "UpdateSectionWithRulesUpdateWithRules", id, "",
                   TRUE, req,
                   FwZero, o)
                   : o \in OutcomesOf(c, "UpdateSectionWithRulesUpdateWithRules", id),
                 req \in {FwFromSchema(c.d, c.d.revision, rules)}} }

\* Delete that does not set cascade
resourceNsxtFirewallSectionDelete_NoCascade(c) ==
    IF c.d.id = "" THEN Errorf(c, ErrorObtainingId)
    ELSE UNION {
      LET resp == Reply(c1)
      IN  IF resp.err THEN Return(c1, "error")
          ELSE IF ~resp.hasResp THEN Return(c1, "panic")
          ELSE IF resp.StatusCode = StatusNotFound
          THEN Return([c1 EXCEPT !.d.id = ""], "ok")
          ELSE Return(c1, "ok")
      : c1 \in {Exchange(c, "Delete", "DeleteSection", c.d.id, "",
               FALSE, FwZero, FwZero, o)
               : o \in OutcomesOf(c, "DeleteSection", c.d.id)} }

resourceNsxtFirewallSectionDelete(c) ==
    IF c.d.id = "" THEN Errorf(c, ErrorObtainingId)
    ELSE UNION {
      LET resp == Reply(c1)
      IN  IF resp.err THEN Return(c1, "error")
          ELSE IF ~resp.hasResp THEN Return(c1, "panic")
          ELSE IF resp.StatusCode = StatusNotFound
          THEN Return([c1 EXCEPT !.d.id = ""], "ok")
          ELSE Return(c1, "ok")
      : c1 \in {Exchange(c, "Delete", "DeleteSection", c.d.id, "cascade",
               FALSE, FwZero, FwZero, o)
               : o \in OutcomesOf(c, "DeleteSection", c.d.id)} }

----------------------------------------------------------------------------
(* The state machine *)

Ctx == [d |-> d, store |-> store, nextId |-> nextId, others |-> others,
        calls |-> <<>>, result |-> "run", msg |-> ""]

NoOp(rec) ==
    [op |-> "none", pre |-> rec, preStore |-> <<>>, preReadRev |-> readRev,
     calls |-> <<>>, result |-> "none", msg |-> ""]

\* the requests whose answer Read stores the revision from
RevisionApis ==
    {"GetNatRule", "ReadL4PortSetNSService",
     "GetSectionWithRulesListWithRules"}

\* the calls of a run after which Read has executed d.Set("revision", ...)
RevisionWrites(calls) ==
    {i \in DOMAIN calls :
        /\ calls[i].fn = "Read" /\ calls[i].api \in RevisionApis
        /\ calls[i].hasResp /\ calls[i].StatusCode # StatusNotFound
        /\ ~calls[i].err}

ReadRevAfter(c) ==
    IF RevisionWrites(c.calls) = {} THEN readRev
    ELSE LET i == CHOOSE j \in RevisionWrites(c.calls) : TRUE
             rev == c.calls[i].body.Revision
         IN  [any |-> rev,
              fromOk |-> \/ c.result = "ok"
                         \/ (readRev.fromOk /\ rev = d.revision)]

NoRecreate == [phase |-> "none", id |-> ""]

\* the requests of a run just before which another client deleted the object
GoneIn(calls) == {i \in DOMAIN calls : calls[i].gone}

\* the history as the run found it: a deletion by another client that lands
\* between two requests of the run, or before its first, starts the history
\* of the object as the same deletion between two runs does
RecreateMet(c) ==
    IF GoneIn(c.calls) = {} THEN recreate
    ELSE [phase |-> "deleted",
          id |-> c.calls[CHOOSE i \in GoneIn(c.calls) : TRUE].id]

\* recreate after a run: a Read that clears the identifier of the deleted
\* object moves on to "cleared"; a run that leaves the record naming
\* anything else than that object ends the history
RecreateAfter(op, c) ==
    LET met == RecreateMet(c)
    IN  CASE met.phase = "deleted" ->
               IF op = "Read" /\ c.d.id = "" /\ c.result = "ok"
               THEN [phase |-> "cleared", id |-> met.id]
               ELSE IF c.d.id = met.id THEN met
               ELSE NoRecreate
          [] OTHER -> met

\* no Read has stored a revision
NoReadRev == [any |-> 0, fromOk |-> TRUE]

Init ==
    /\ kind \in {"nat", "l4", "fw"}
    /\ d \in CASE kind = "nat" -> {NatRecord(cfg) : cfg \in NatCfgs}
              [] kind = "l4" -> {L4Record(cfg) : cfg \in L4Cfgs}
              [] kind = "fw" -> {FwRecord(cfg) : cfg \in FwCfgs}
    /\ store = <<>>
    /\ nextId = 1
    /\ readRev = NoReadRev
    /\ others = MaxOther
    /\ recreate = NoRecreate
    /\ last = NoOp(d)

\* A handler runs to its return.  Terraform calls Create for a record that
\* has no identifier yet (the guard d.id = "" of the Create actions).
Run(op, outs) ==
    /\ last.op = "none"
    /\ \E c \in outs :
         /\ d' = c.d
         /\ store' = c.store
         /\ nextId' = c.nextId
         /\ others' = c.others
         /\ last' = [op |-> op, pre |-> d, preStore |-> store,
                     preReadRev |-> readRev, calls |-> c.calls,
                     result |-> c.result, msg |-> c.msg]
         /\ readRev' = ReadRevAfter(c)
         /\ recreate' = RecreateAfter(op, c)
         /\ UNCHANGED kind

\* Terraform takes the record and the result the handler returned with; a
\* handler that panicked has ended the provider process
\* the record of a resource Terraform holds no state of: the user-supplied
\* fields with the schema's defaults for the computed ones
Fresh(rec) ==
    CASE kind = "nat" ->
           [rec EXCEPT !.id = "", !.revision = 0, !.rule_priority = 0]
      [] kind = "l4" ->
           [rec EXCEPT !.id = "", !.revision = 0, !.system_owned = FALSE,
                       !.default_service = FALSE]
      [] kind = "fw" ->
           [rec EXCEPT !.id = "", !.revision = 0, !.is_default = FALSE]

\* Terraform keeps the state it had when Read returns an error
StateKept == last.op = "Read" /\ last.result = "error"

\* Terraform discards the state of a resource whose Delete returned no error
\* and of one whose handler returned with an empty identifier
StateDiscarded ==
    /\ ~StateKept
    /\ \/ last.op = "Delete" /\ last.result = "ok"
       \/ d.id = ""

\* Every request names the object by the identifier of the record, and the
\* manager never hands an identifier out twice: an object of the manager
\* that the record does not name is out of reach of every later request,
\* and is followed no further.
Addressable(st, rec) == [i \in DOMAIN st \cap {rec.id} |-> st[i]]

\* the handler has returned to Terraform, which saves the state
Returned ==
    /\ last.op # "none" /\ last.result # "panic"
    /\ d' = CASE StateKept -> last.pre
              [] StateDiscarded -> Fresh(d)
              [] OTHER -> d
    /\ readRev' = CASE StateKept -> last.preReadRev
                    [] StateDiscarded -> NoReadRev
                    [] OTHER -> readRev
    /\ last' = NoOp(d')
    /\ recreate' = IF recreate.phase = "cleared" /\ d.id # ""
                   THEN NoRecreate
                   ELSE recreate
    /\ store' = Addressable(store, d')
    /\ UNCHANGED <<kind, nextId, others>>

RevRoom(n) == \A i \in DOMAIN store : store[i].Revision + n <= MaxRev

\* an Update can run while the manager's revision of the object has room to
\* grow, or the record's revision is not the manager's: that Update is
\* rejected as stale and adds no revision
UpdateRoom ==
    \/ RevRoom(1)
    \/ d.id \in DOMAIN store /\ d.revision # store[d.id].Revision

NatCreate ==
    /\ kind = "nat" /\ d.id = "" /\ nextId <= MaxIds
    /\ Run("Create", resourceNsxtNatRuleCreate(Ctx))

NatRead ==
    /\ kind = "nat"
    /\ Run("Read", resourceNsxtNatRuleRead(Ctx))

NatUpdate ==
    /\ kind = "nat" /\ UpdateRoom
    /\ Run("Update", resourceNsxtNatRuleUpdate(Ctx))

NatDelete ==
    /\ kind = "nat"
    /\ Run("Delete", resourceNsxtNatRuleDelete(Ctx))

\* the user edits the configuration: Terraform hands the next handler the
\* record with the user-supplied fields replaced
NatConfigure ==
    /\ kind = "nat" /\ last.op = "none"
    /\ \E cfg \in NatCfgs :
         /\ d' = [NatRecord(cfg) EXCEPT !.id = d.id, !.revision = d.revision,
                                        !.rule_priority = d.rule_priority]
         /\ d' # d
    /\ last' = NoOp(d')
    /\ UNCHANGED <<kind, store, nextId, readRev, others, recreate>>

L4Create ==
    /\ kind = "l4" /\ d.id = "" /\ nextId <= MaxIds
    /\ Run("Create", resourceL4PortSetNsServiceCreate(Ctx))

L4Read ==
    /\ kind = "l4"
    /\ Run("Read", resourceL4PortSetNsServiceRead(Ctx))

L4Update ==
    /\ kind = "l4" /\ UpdateRoom
    /\ Run("Update", resourceL4PortSetNsServiceUpdate(Ctx))

L4Delete ==
    /\ kind = "l4"
    /\ Run("Delete", resourceL4PortSetNsServiceDelete(Ctx))

L4Configure ==
    /\ kind = "l4" /\ last.op = "none"
    /\ \E cfg \in L4Cfgs :
         /\ d' = [L4Record(cfg) EXCEPT !.id = d.id, !.revision = d.revision,
                     !.system_owned = d.system_owned,
                     !.default_service = d.default_service]
         /\ d' # d
    /\ last' = NoOp(d')
    /\ UNCHANGED <<kind, store, nextId, readRev, others, recreate>>

FwCreate ==
    /\ kind = "fw" /\ d.id = "" /\ nextId <= MaxIds
    /\ Run("Create", resourceNsxtFirewallSectionCreate(Ctx))

FwRead ==
    /\ kind = "fw"
    /\ Run("Read", resourceNsxtFirewallSectionRead(Ctx))

FwUpdate ==
    /\ kind = "fw" /\ UpdateRoom
    /\ Run("Update", resourceNsxtFirewallSectionUpdate(Ctx))

FwDelete ==
    /\ kind = "fw"
    /\ Run("Delete", resourceNsxtFirewallSectionDelete(Ctx))

FwConfigure ==
    /\ kind = "fw" /\ last.op = "none"
    /\ \E cfg \in FwCfgs :
         /\ d.id = "" \/ cfg.stateful = d.stateful
         /\ d' = [FwRecord(cfg) EXCEPT !.id = d.id, !.revision = d.revision,
                                       !.is_default = d.is_default]
         /\ d' # d
    /\ last' = NoOp(d')
    /\ UNCHANGED <<kind, store, nextId, readRev, others, recreate>>

\* another client of the manager edits the object the record names
OtherClientUpdate ==
    /\ last.op = "none" /\ RevRoom(1) /\ others > 0
    /\ d.id \in DOMAIN store
    /\ store' = Put(store, d.id,
                    CASE kind = "nat" -> NatOther(store[d.id])
                      [] kind = "l4" -> L4Other(store[d.id])
                      [] kind = "fw" -> FwOther(store[d.id]))
    /\ last' = NoOp(d)
    /\ others' = others - 1
    /\ UNCHANGED <<kind, d, nextId, readRev, recreate>>

\* another client of the manager deletes the object the record names
OtherClientDelete ==
    /\ last.op = "none" /\ others > 0
    /\ d.id \in DOMAIN store
    /\ store' = Remove(store, d.id)
    /\ last' = NoOp(d)
    /\ recreate' = [phase |-> "deleted", id |-> d.id]
    /\ others' = others - 1
    /\ UNCHANGED <<kind, d, nextId, readRev>>

Next ==
    \/ NatCreate \/ NatRead \/ NatUpdate \/ NatDelete \/ NatConfigure
    \/ L4Create \/ L4Read \/ L4Update \/ L4Delete \/ L4Configure
    \/ FwCreate \/ FwRead \/ FwUpdate \/ FwDelete \/ FwConfigure
    \/ OtherClientUpdate \/ OtherClientDelete \/ Returned

Spec == Init /\ [][Next]_vars

\* The provider alone: Create, Read and Update of one resource, and no other
\* client of the manager writing.
NextSingleWriter ==
    \/ NatCreate \/ NatRead \/ NatUpdate \/ NatConfigure
    \/ L4Create \/ L4Read \/ L4Update \/ L4Configure
    \/ FwCreate \/ FwRead \/ FwUpdate \/ FwConfigure
    \/ Returned

\* no other client writes to the manager: none has a write left, between
\* the runs or during one
InitSingleWriter ==
    /\ kind \in {"nat", "l4", "fw"}
    /\ d \in CASE kind = "nat" -> {NatRecord(cfg) : cfg \in NatCfgs}
              [] kind = "l4" -> {L4Record(cfg) : cfg \in L4Cfgs}
              [] kind = "fw" -> {FwRecord(cfg) : cfg \in FwCfgs}
    /\ store = <<>>
    /\ nextId = 1
    /\ readRev = NoReadRev
    /\ others = 0
    /\ recreate = NoRecreate
    /\ last = NoOp(d)

SpecSingleWriter == InitSingleWriter /\ [][NextSingleWriter]_vars

\* Firewall sections configured with every rule list of RuleLists: Create and
\* Update translate the list with getRulesFromSchema, Read hands the rules
\* of the response to setRulesInSchema; another client of the manager edits
\* the section, so that a response can hold rules the record does not.
InitTranslate ==
    /\ kind = "fw"
    /\ d \in {FwRecord([FwCfgB EXCEPT !.rule = rules]) : rules \in RuleLists}
    /\ store = <<>>
    /\ nextId = 1
    /\ readRev = NoReadRev
    /\ others = MaxOther
    /\ recreate = NoRecreate
    /\ last = NoOp(d)

\* Update of a section configured with rules: the run that translates the
\* rule list (UpdateEmpty sends no rule)
FwUpdateWithRules ==
    /\ d.rule # <<>>
    /\ FwUpdate

NextTranslate ==
    \/ FwCreate \/ FwRead \/ FwUpdateWithRules
    \/ OtherClientUpdate \/ Returned

SpecTranslate == InitTranslate /\ [][NextTranslate]_vars

----------------------------------------------------------------------------
(* Properties.  They speak about the handler run recorded in last and the   *)
(* record d it returned with.                                              *)

Calls == last.calls
NotFound(e) == e.hasResp /\ e.StatusCode = StatusNotFound
NoReadCall == \A j \in DOMAIN Calls : Calls[j].fn # "Read"

\* C1: whenever a Get request of Read is answered 404, the run returns no
\* error and the local identifier is the empty string.
C1_ReadNotFoundClearsId ==
    \A i \in DOMAIN Calls :
        (Calls[i].fn = "Read" /\ NotFound(Calls[i]))
            => (last.result = "ok" /\ d.id = "")

\* a Read of an identified record whose Get is answered 404 together with an
\* error of the client
C1_Witness ==
    /\ last.op = "Read" /\ last.pre.id # "" /\ Len(Calls) = 1
    /\ NotFound(Calls[1]) /\ Calls[1].err
    /\ last.result = "ok" /\ d.id = ""

\* C2: whenever the Delete request is answered 404, Delete returns no error
\* and the local identifier is the empty string.
C2_DeleteNotFoundClearsId ==
    \A i \in DOMAIN Calls :
        (Calls[i].fn = "Delete" /\ NotFound(Calls[i]))
            => (last.result = "ok" /\ d.id = "")

\* C3: whenever the Update request is answered 404, Update returns an error,
\* the local identifier is the one it had before and not empty, and no
\* request of Read was made.
C3_UpdateNotFoundIsError ==
    \A i \in DOMAIN Calls :
        (Calls[i].api \in UpdateApis /\ NotFound(Calls[i]))
            => /\ last.result = "error"
               /\ d.id = last.pre.id /\ d.id # ""
               /\ NoReadCall

\* an Update whose request is answered 404 with no error of the client
C3_Witness ==
    /\ last.op = "Update" /\ Len(Calls) = 1
    /\ Calls[1].api \in UpdateApis
    /\ NotFound(Calls[1]) /\ ~Calls[1].err
    /\ last.result = "error" /\ d.id # ""

\* C4: if the Add/Create request meets a transport error or is answered with
\* a status other than 201, Create returns an error, the local identifier
\* is still empty and no request of Read was made.
C4_CreateFailureIsError ==
    (/\ last.op = "Create" /\ Calls # <<>>
     /\ (Calls[1].err \/ ~Calls[1].hasResp
           \/ Calls[1].StatusCode # StatusCreated))
        => (last.result = "error" /\ d.id = "" /\ NoReadCall)

\* C5: whenever Create returns no error, its Add/Create request was
\* answered 201 with an identifier that is not empty, that identifier was
\* stored, and a request of Read for it followed.
C5_CreateSuccessStoresId ==
    (last.op = "Create" /\ last.result = "ok")
        => /\ Calls # <<>>
           /\ Calls[1].hasResp /\ Calls[1].StatusCode = StatusCreated
           /\ Calls[1].body.Id # ""
           /\ \E j \in DOMAIN Calls :
                 /\ j > 1 /\ Calls[j].fn = "Read"
                 /\ Calls[j].id = Calls[1].body.Id

\* C6: in every handler, a remote call for which the client reports an error
\* (with or without a response, the status not 404) makes the handler return
\* an error: no success, no panic.
C6_TransportFailureIsError ==
    \A i \in DOMAIN Calls :
        (Calls[i].err /\ ~NotFound(Calls[i])) => last.result = "error"

\* C7: in Read, Update and Delete a response whose status is neither a
\* success status nor 404 makes the handler return an error, with or without
\* an error of the client, and a Read leaves the record as it was.
C7_UnexpectedStatusIsError ==
    (/\ last.op \in {"Read", "Update", "Delete"}
     /\ \E i \in DOMAIN Calls :
           /\ Calls[i].hasResp
           /\ Calls[i].StatusCode \notin
                 {StatusOK, StatusCreated, StatusNotFound})
        => /\ last.result = "error"
           /\ (last.op = "Read" /\ Len(Calls) = 1) => d = last.pre

\* C8 (as amended): the first request of Update is the update request, and
\* the revision it carries is the revision of the local record, which is the
\* revision stored last by a Read whose record Terraform has kept (0 if
\* none has), whether or not that Read went on to return an error to the
\* Create or Update that ran it.
C8_UpdateSendsLocalRevision ==
    (last.op = "Update" /\ Calls # <<>>)
        => /\ Calls[1].api \in UpdateApis /\ Calls[1].hasReq
           /\ Calls[1].req.Revision = last.pre.revision
           /\ last.pre.revision = last.preReadRev.any

\* an Update that submits a revision a Read stored and the manager has moved
\* on from
C8_Witness ==
    /\ last.op = "Update" /\ Calls # <<>>
    /\ last.pre.revision > 0
    /\ Calls[1].req.Revision = last.pre.revision
    /\ Calls[1].hasResp /\ Calls[1].StatusCode = StatusPreconditionFailed

\* C8 (as claimed), for a record whose revision is not 0: the revision
\* Update carries is the revision of the local record, and that is the
\* revision written by the most recent Read that returned without error.
C8_RevisionOfSuccessfulRead ==
    (last.op = "Update" /\ Calls # <<>> /\ last.pre.revision > 0)
        => /\ Calls[1].api \in UpdateApis
           /\ Calls[1].req.Revision = last.pre.revision
           /\ last.preReadRev.fromOk

\* the tags of a response as the record holds them
TagsOf(tags) == {[scope |-> t.Scope, tag |-> t.Tag] : t \in tags}

\* the resource references of a response as the record holds them
RefsOf(refs) ==
    [i \in DOMAIN refs |->
        [is_valid |-> refs[i].IsValid,
         target_display_name |-> refs[i].TargetDisplayName,
         target_id |-> refs[i].TargetId, target_type |-> refs[i].TargetType]]

NatMirrors(rec, body) ==
    /\ rec.revision = body.Revision
    /\ rec.description = body.Description
    /\ rec.display_name = body.DisplayName
    /\ rec.tag = TagsOf(body.Tags)
    /\ rec.action = body.Action
    /\ rec.enabled = body.Enabled
    /\ rec.logging = body.Logging
    /\ rec.logical_router_id = body.LogicalRouterId
    /\ rec.match_destination_network = body.MatchDestinationNetwork
    /\ rec.match_source_network = body.MatchSourceNetwork
    /\ rec.nat_pass = body.NatPass
    /\ rec.rule_priority = body.RulePriority
    /\ rec.translated_network = body.TranslatedNetwork
    /\ rec.translated_ports = body.TranslatedPorts

L4Mirrors(rec, body) ==
    /\ rec.revision = body.Revision
    /\ rec.system_owned = body.SystemOwned
    /\ rec.description = body.Description
    /\ rec.display_name = body.DisplayName
    /\ rec.tags = TagsOf(body.Tags)
    /\ rec.default_service = body.DefaultService
    /\ rec.l4_protocol = body.NsserviceElement.L4Protocol
    /\ rec.destination_ports =
          {body.NsserviceElement.DestinationPorts[i] :
              i \in DOMAIN body.NsserviceElement.DestinationPorts}
    /\ rec.source_ports =
          {body.NsserviceElement.SourcePorts[i] :
              i \in DOMAIN body.NsserviceElement.SourcePorts}

RuleMirrors(r, rule) ==
    /\ r.revision = rule.Revision
    /\ r.description = rule.Description
    /\ r.display_name = rule.DisplayName
    /\ r.action = rule.Action
    /\ r.applied_to = RefsOf(rule.AppliedTos)
    /\ r.destination = RefsOf(rule.Destinations)
    /\ r.destinations_excluded = rule.DestinationsExcluded
    /\ r.direction = rule.Direction
    /\ r.disabled = rule.Disabled
    /\ r.ip_protocol = rule.IpProtocol
    /\ r.logged = rule.Logged
    /\ r.notes = rule.Notes
    /\ r.rule_tag = rule.RuleTag
    /\ r.source = RefsOf(rule.Sources)
    /\ r.sources_excluded = rule.SourcesExcluded
    /\ r.service = RefsOf(rule.Services)

FwMirrors(rec, body, body2) ==
    /\ rec.revision = body.Revision
    /\ rec.description = body.Description
    /\ rec.display_name = body.DisplayName
    /\ rec.tag = TagsOf(body.Tags)
    /\ rec.is_default = body.IsDefault
    /\ rec.section_type = body.SectionType
    /\ rec.stateful = body.Stateful
    /\ rec.applied_to =
          {[is_valid |-> r.IsValid,
            target_display_name |-> r.TargetDisplayName,
            target_id |-> r.TargetId, target_type |-> r.TargetType]
              : r \in body2.AppliedTos}
    /\ Len(rec.rule) = Len(body.Rules)
    /\ \A i \in DOMAIN rec.rule : RuleMirrors(rec.rule[i], body.Rules[i])

\* no other client has deleted the object during the run
NoneGone == \A i \in DOMAIN Calls : ~Calls[i].gone

\* no other client has edited the object during the run
NoneEdited == \A i \in DOMAIN Calls : ~Calls[i].edited

\* every request of the run was answered 200 or 201 with no error
AllAnswered ==
    \A i \in DOMAIN Calls :
        /\ Calls[i].hasResp /\ ~Calls[i].err
        /\ Calls[i].StatusCode \in {StatusOK, StatusCreated}

\* C9: after a Read whose requests were all answered 200 and that returned
\* no error, every field of the record that mirrors a field of the remote
\* object holds the value of the response.
C9_ReadRefreshesFields ==
    (last.op = "Read" /\ last.result = "ok" /\ Calls # <<>> /\ AllAnswered)
        => CASE kind = "nat" -> NatMirrors(d, Calls[1].body)
             [] kind = "l4" -> L4Mirrors(d, Calls[1].body)
             [] kind = "fw" -> /\ Len(Calls) = 2
                               /\ FwMirrors(d, Calls[1].body, Calls[2].body)

\* the user-supplied part of a rule of the record
UserRule(r) == [r EXCEPT !.revision = 0]

\* C10: after a Create that returned no error and whose requests (the
\* trailing Read's included) were all answered 200 or 201 by a manager that
\* stores what it is sent and that no other client writes to meanwhile,
\* every user-supplied field of the record has the value it had before
\* Create.
C10_CreateReadRoundTrip ==
    (/\ last.op = "Create" /\ last.result = "ok" /\ d.id # ""
     /\ AllAnswered /\ NoneEdited)
        => CASE kind = "nat" ->
                  \A f \in NatUserFields : d[f] = last.pre[f]
             [] kind = "l4" ->
                  \A f \in L4UserFields : d[f] = last.pre[f]
             [] kind = "fw" ->
                  /\ \A f \in FwUserFields \ {"rule"} : d[f] = last.pre[f]
                  /\ Len(d.rule) = Len(last.pre.rule)
                  /\ \A i \in DOMAIN d.rule :
                        UserRule(d.rule[i]) = UserRule(last.pre.rule[i])

\* a firewall section configured with a rule applied to a logical switch,
\* created and read back with success throughout: the record holds the rule
\* as it was configured
C10_Witness ==
    /\ kind = "fw" /\ last.op = "Create" /\ last.result = "ok"
    /\ AllAnswered /\ NoneEdited /\ Len(Calls) = 3
    /\ Len(Calls[2].body.Rules) = 1
    /\ last.pre.rule = <<RuleA>>
    /\ d.rule = last.pre.rule /\ d.rule[1].applied_to = <<RefSwitch>>
    /\ d.id \in DOMAIN store

\* a request that failed: an error of the client, no response, or a status
\* that is no success status
Failed(e) ==
    e.err \/ ~e.hasResp \/ e.StatusCode \notin {StatusOK, StatusCreated}

\* the same request: same operation of the API on the same object
SameRequest(a, b) ==
    /\ a.api = b.api /\ a.id = b.id /\ a.arg = b.arg
    /\ a.hasReq = b.hasReq /\ a.req = b.req

\* the rules the Get of UpdateEmpty was answered with
RulesListed ==
    LET gets == {i \in DOMAIN Calls :
                    /\ Calls[i].fn = "Update"
                    /\ Calls[i].api = "GetSectionWithRulesListWithRules"}
    IN  IF gets = {} THEN 0
        ELSE Len(Calls[CHOOSE i \in gets : TRUE].body.Rules)

\* the most requests one run makes: the update, the Get, one DeleteRule per
\* rule the Get was answered with, and the two Gets of Read
CallBound == 4 + RulesListed

\* C11: within one run of a handler no request that failed is made again,
\* and the run makes no more than a fixed number of requests.
C11_NoRetry ==
    /\ \A i, j \in DOMAIN Calls :
          (i < j /\ Failed(Calls[i])) => ~SameRequest(Calls[i], Calls[j])
    /\ Len(Calls) <= CallBound

\* the object the record named before the run is on the manager what it was
RemoteUnchanged ==
    /\ last.pre.id \in DOMAIN store
    /\ store[last.pre.id] = last.preStore[last.pre.id]

\* C12: if the manager's revision of the object is ahead of the record's and
\* the manager rejects the update request as stale (412), Update returns an
\* error and the object is on the manager what the other client made it.
C12_StaleUpdateRejected ==
    (/\ last.op = "Update" /\ Calls # <<>>
     /\ Calls[1].api \in UpdateApis
     /\ last.pre.id \in DOMAIN last.preStore
     /\ last.preStore[last.pre.id].Revision > last.pre.revision
     /\ Calls[1].hasResp /\ Calls[1].StatusCode = StatusPreconditionFailed)
        => /\ last.result = "error"
           /\ (NoneGone /\ NoneEdited) => RemoteUnchanged

\* C13: whenever Update of a firewall section whose configured rule list is
\* empty returns no error and the section is still on the manager, the
\* section on the manager has no rules.  Stated for the runs whose update
\* request and Get requests were all answered 200 with no error and during
\* which no other client wrote to the section.
C13_UpdateEmptyLeavesNoRules ==
    (/\ kind = "fw" /\ last.op = "Update" /\ last.pre.rule = <<>>
     /\ last.result = "ok" /\ last.pre.id \in DOMAIN store
     /\ NoneGone /\ NoneEdited
     /\ \A i \in DOMAIN Calls :
           Calls[i].api # "DeleteRule" =>
               (Calls[i].hasResp /\ ~Calls[i].err
                  /\ Calls[i].StatusCode = StatusOK))
        => store[last.pre.id].Rules = <<>>

\* C14: with no other client writing, whenever a Create, Read or Update
\* returned no error and the record names an object of the manager, the
\* revision of the record is the manager's revision of that object.
C14_SingleWriterRevision ==
    (/\ last.op \in {"Create", "Read", "Update"} /\ last.result = "ok"
     /\ d.id # "" /\ d.id \in DOMAIN store)
        => d.revision = store[d.id].Revision

\* C15: whenever Update returns an error, the object the record names (for
\* a firewall section, its rules too) is on the manager what it was before
\* that Update.  Stated for the runs during which no other client wrote to
\* the object and whose requests were all answered with a response.
C15_UpdateAllOrNothing ==
    (/\ last.op = "Update" /\ last.result = "error"
     /\ NoneGone /\ NoneEdited
     /\ \A i \in DOMAIN Calls : Calls[i].hasResp
     /\ last.pre.id \in DOMAIN last.preStore)
        => RemoteUnchanged

\* the record as the Read that made request i found it, with what that Read
\* had stored before the request: nothing before its first request, the
\* fields of the first response before the second request of a firewall
\* section's Read
BeforeNotFound(i) ==
    IF Calls[i].api = "GetSection"
    THEN FwSetInSchema(last.pre, Calls[i - 1].body)
    ELSE last.pre

\* C16 (as amended): whenever a request of Read is answered 404, the record
\* is the record as it was when that request was made with the identifier
\* cleared: the record before the Read if the request is the Read's first,
\* and the record holding the first response if it is the second request of
\* a firewall section's Read.
C16_ReadNotFoundKeepsFields ==
    \A i \in DOMAIN Calls :
        (Calls[i].fn = "Read" /\ NotFound(Calls[i]))
            => d = [BeforeNotFound(i) EXCEPT !.id = ""]

\* a Read of a firewall section whose second request is answered 404 after
\* the first response has changed fields of the record
C16_Witness ==
    /\ kind = "fw" /\ last.op = "Read" /\ Len(Calls) = 2
    /\ Calls[1].StatusCode = StatusOK /\ ~Calls[1].err
    /\ Calls[2].api = "GetSection" /\ NotFound(Calls[2])
    /\ d.id = "" /\ d # [last.pre EXCEPT !.id = ""]

\* C16 (as claimed): whenever a request of Read is answered 404, every field
\* of the record but the identifier has the value it had before that Read.
\* Stated for the runs whose earlier requests were all answered 200 or 201
\* with no error.
C16_ReadNotFoundChangesOnlyId ==
    \A i \in DOMAIN Calls :
        (/\ Calls[i].fn = "Read" /\ NotFound(Calls[i])
         /\ \A j \in 1..(i - 1) :
               /\ ~Calls[j].err
               /\ Calls[j].StatusCode \in {StatusOK, StatusCreated})
            => d = [last.pre EXCEPT !.id = ""]

\* the run was started with what an identifier guard rejects
GuardCase ==
    \/ last.op \in {"Read", "Update", "Delete"} /\ last.pre.id = ""
    \/ /\ kind = "nat" /\ last.op \in {"Create", "Read", "Update", "Delete"}
       /\ last.pre.logical_router_id = ""

\* C17: Read, Update and Delete started with an empty identifier, and every
\* operation of a NAT rule started with an empty logical_router_id, return
\* the error "Error obtaining logical object id", make no request and leave
\* the record as it was.
C17_IdentifierGuards ==
    GuardCase
        => /\ last.result = "error" /\ last.msg = ErrorObtainingId
           /\ Calls = <<>>
           /\ d = last.pre

\* Create of a NAT rule that has no logical_router_id
C17_Witness ==
    /\ kind = "nat" /\ last.op = "Create"
    /\ last.pre.logical_router_id = ""
    /\ last.result = "error" /\ last.msg = ErrorObtainingId
    /\ Calls = <<>>

\* the sections the run has put on the manager
NewSections == DOMAIN store \ DOMAIN last.preStore

\* C18: Create of a firewall section makes one creation request, the first
\* of the run: AddSection if the configured rule list is empty, and else
\* AddSectionWithRules carrying every configured rule in order; every later
\* request is a Get of Read; and a section the run has put on the manager,
\* whatever Create returned, has as many rules as are configured unless
\* another client has edited it since.
C18_CreateSingleRequest ==
    (kind = "fw" /\ last.op = "Create" /\ Calls # <<>>)
        => /\ {i \in DOMAIN Calls : Calls[i].fn = "Create"} = {1}
           /\ Calls[1].api = IF last.pre.rule = <<>>
                             THEN "AddSection"
                             ELSE "AddSectionWithRulesCreateWithRules"
           /\ Calls[1].hasReq
           /\ Len(Calls[1].req.Rules) = Len(last.pre.rule)
           /\ \A k \in DOMAIN last.pre.rule :
                 Calls[1].req.Rules[k].DisplayName =
                     last.pre.rule[k].display_name
           /\ \A j \in DOMAIN Calls :
                 j > 1 => /\ Calls[j].fn = "Read"
                          /\ Calls[j].api \in
                                {"GetSectionWithRulesListWithRules",
                                 "GetSection"}
           /\ NoneEdited
                 => \A id \in NewSections :
                       Len(store[id].Rules) = Len(last.pre.rule)

\* a Create with two configured rules that returned an error from its
\* trailing Read: the section is on the manager with both rules
C18_Witness ==
    /\ kind = "fw" /\ last.op = "Create" /\ Len(last.pre.rule) = 2
    /\ last.result = "error" /\ NoneEdited
    /\ \E id \in NewSections : Len(store[id].Rules) = 2

\* C19: Delete of a firewall section makes one request, DeleteSection with
\* cascade set, and no DeleteRule request; when the request is answered 200
\* the section is gone from the manager with its rules.
C19_DeleteCascades ==
    (kind = "fw" /\ last.op = "Delete" /\ Calls # <<>>)
        => /\ Len(Calls) = 1
           /\ Calls[1].api = "DeleteSection" /\ Calls[1].arg = "cascade"
           /\ (Calls[1].hasResp /\ Calls[1].StatusCode = StatusOK)
                 => last.pre.id \notin DOMAIN store

\* a Delete, answered 200, of a section that had rules
C19_Witness ==
    /\ kind = "fw" /\ last.op = "Delete" /\ Len(Calls) = 1
    /\ last.pre.id \in DOMAIN last.preStore
    /\ last.preStore[last.pre.id].Rules # <<>>
    /\ Calls[1].hasResp /\ Calls[1].StatusCode = StatusOK /\ ~Calls[1].gone
    /\ last.result = "ok" /\ last.pre.id \notin DOMAIN store

\* the requests that carry the translated rule list
RuleRequestApis ==
    {"AddSectionWithRulesCreateWithRules",
     "UpdateSectionWithRulesUpdateWithRules"}

\* request i of the run is a Get of Read whose rules Read has stored
StoresRules(i) ==
    /\ Calls[i].fn = "Read"
    /\ Calls[i].api = "GetSectionWithRulesListWithRules"
    /\ Calls[i].hasResp /\ Calls[i].StatusCode # StatusNotFound
    /\ ~Calls[i].err

\* C20: a request that carries rules carries one rule per configured rule in
\* the configured order; after Read has stored the rules of a response the
\* record holds one rule per rule of the response in the response's order;
\* and the services of every rule of a response, written to the record with
\* returnServicesResourceReferences and translated back with
\* getServicesResourceReferences, are the list they were.
C20_RuleTranslationPreservesList ==
    \A i \in DOMAIN Calls :
        /\ Calls[i].api \in RuleRequestApis
              => /\ Len(Calls[i].req.Rules) = Len(last.pre.rule)
                 /\ \A k \in DOMAIN last.pre.rule :
                       /\ Calls[i].req.Rules[k].DisplayName =
                             last.pre.rule[k].display_name
                       /\ returnServicesResourceReferences(
                              Calls[i].req.Rules[k].Services) =
                             last.pre.rule[k].service
        /\ StoresRules(i)
              => /\ Len(d.rule) = Len(Calls[i].body.Rules)
                 /\ \A k \in DOMAIN d.rule :
                       /\ d.rule[k].display_name =
                             Calls[i].body.Rules[k].DisplayName
                       /\ getServicesResourceReferences(
                              returnServicesResourceReferences(
                                  Calls[i].body.Rules[k].Services)) =
                             Calls[i].body.Rules[k].Services
                       /\ getServicesResourceReferences(d.rule[k].service) =
                             Calls[i].body.Rules[k].Services

\* the manager has processed the request: it answers every request it
\* processes, and never with 500
Processed(e) == e.hasResp /\ e.StatusCode # StatusInternalServerError

\* the first request of the run sent after the deletion by another client:
\* the request that met the deletion if it landed during the run, the first
\* request if it landed before
AfterDeletion ==
    IF GoneIn(Calls) = {} THEN 1 ELSE CHOOSE i \in GoneIn(Calls) : TRUE

\* C21: after another client has deleted the object the record names, the
\* request of a Read that follows the deletion, when the manager processes
\* it, is answered 404 and is the last of the Read, which clears the
\* identifier and returns no error; so for a deletion before the Read and
\* for one between the two requests of a firewall section's Read.  From
\* then on, until a Create has returned, the identifier is empty outside
\* Create and no request of Update or Delete is made, so none for the old
\* identifier reaches the manager.  A Create for that record whose requests
\* are all answered with success puts a new object made from the record on
\* the manager and stores its identifier, which is not the old one; the
\* object has the name of the record unless another client has edited it
\* since.
C21_RecreateAfterDeletion ==
    /\ (/\ last.op = "Read" /\ recreate.phase # "none"
        /\ last.pre.id = recreate.id
        /\ AfterDeletion \in DOMAIN Calls
        /\ Processed(Calls[AfterDeletion]))
          => /\ NotFound(Calls[AfterDeletion])
             /\ Len(Calls) = AfterDeletion
             /\ last.result = "ok" /\ d.id = ""
             /\ recreate.phase = "cleared"
    /\ recreate.phase = "cleared"
          => /\ last.op # "Create" => d.id = ""
             /\ \A i \in DOMAIN Calls :
                   Calls[i].fn \notin {"Update", "Delete"}
    /\ (/\ recreate.phase = "cleared" /\ last.op = "Create"
        /\ Calls # <<>> /\ AllAnswered)
          => /\ last.pre.id = "" /\ last.result = "ok"
             /\ d.id # "" /\ d.id # recreate.id
             /\ d.id = Calls[1].body.Id
             /\ d.id \in DOMAIN store
             /\ d.id \notin DOMAIN last.preStore
             /\ recreate.id \notin DOMAIN store
             /\ NoneEdited
                   => store[d.id].DisplayName = last.pre.display_name

\* a Create, after a Read has cleared the identifier of an object another
\* client deleted, that returned with the identifier of a new object
C21_Witness ==
    /\ recreate.phase = "cleared" /\ last.op = "Create"
    /\ last.result = "ok" /\ AllAnswered /\ NoneEdited
    /\ d.id # "" /\ d.id # recreate.id /\ d.id \in DOMAIN store

====
